---- MODULE Spec2Model ----
(***************************************************************************)
(* A model of splat2mc: the PLY -> mcfunction conversion pipeline          *)
(* (src/src/splat2mc/converter.py) and its command-line drivers            *)
(* (src/src/splat2mc/cli.py).                                              *)
(*                                                                         *)
(* Python floats are modelled as exact rationals <<numerator, denominator>>*)
(* in lowest terms with a positive denominator: IEEE-754 rounding is not   *)
(* modelled.  exp and the logistic function are tabulated on the raw       *)
(* values the model's files hold.                                          *)
(***************************************************************************)
EXTENDS Integers, Sequences, FiniteSets, TLC

VARIABLES
    pc,             \* position of the running command / function under study
    command,        \* "convert" | "batch" | the function a specification applies
    files,          \* the PLY files handed to the command
    idx,            \* batch: index of the file being processed
    attempts,       \* per file: how many times convert_ply_to_datapack was entered
    original,       \* the sequence first handed to the function under study
    input,          \* the input of the stage that ran last
    splats,         \* the working splat collection (the last stage's output)
    indices,        \* the indices numpy.random.choice drew (random policy)
    mcfunction,     \* the lines generate_mcfunction returned
    error,          \* "" or the exception that is propagating / was raised
    errors,         \* batch: per file, the error the except clause reported
    stages,         \* the stages that ran in the current pipeline run
    outdir,         \* whether the output root directory exists
    datapacks,      \* per file index: the datapack artefacts written
    max_particles,  \* max_particles / max_count
    method,         \* "opacity" | "random"
    target_size,    \* target extent
    center,         \* centering flag
    min_opacity,    \* opacity threshold
    relative        \* coordinate mode

vars == <<pc, command, files, idx, attempts, original, input, splats, indices, mcfunction,
          error, errors, stages, outdir, datapacks, max_particles, method,
          target_size, center, min_opacity, relative>>

-----------------------------------------------------------------------------
(* Bounds of the model. *)

MaxLen == 3
MaxFiles == 2

-----------------------------------------------------------------------------
(* Rational arithmetic standing for Python's float arithmetic. *)

Abs(n) == IF n < 0 THEN -n ELSE n

RECURSIVE Gcd(_, _)
Gcd(a, b) == IF b = 0 THEN a ELSE Gcd(b, a % b)

Rat(n, d) ==
    LET s == IF d < 0 THEN -1 ELSE 1
        g == Gcd(Abs(n), Abs(d))
    IN  <<(s * n) \div g, (s * d) \div g>>

R(n) == <<n, 1>>

RAdd(a, b) == Rat(a[1] * b[2] + b[1] * a[2], a[2] * b[2])
RSub(a, b) == Rat(a[1] * b[2] - b[1] * a[2], a[2] * b[2])
RMul(a, b) == Rat(a[1] * b[1], a[2] * b[2])
RDiv(a, b) == Rat(a[1] * b[2], a[2] * b[1])
RLt(a, b) == a[1] * b[2] < b[1] * a[2]
RLe(a, b) == a[1] * b[2] <= b[1] * a[2]
RMin(a, b) == IF RLt(b, a) THEN b ELSE a
RMax(a, b) == IF RLt(a, b) THEN b ELSE a
RNeg(a) == <<-a[1], a[2]>>

RECURSIVE SeqMin(_)
SeqMin(s) == IF Len(s) = 1 THEN s[1] ELSE RMin(SeqMin(SubSeq(s, 1, Len(s) - 1)), s[Len(s)])

RECURSIVE SeqMax(_)
SeqMax(s) == IF Len(s) = 1 THEN s[1] ELSE RMax(SeqMax(SubSeq(s, 1, Len(s) - 1)), s[Len(s)])

\* np.clip(v, 0, 1) and max(0, min(1, v))
Clip01(v) == RMax(R(0), RMin(R(1), v))

\* Python's `v or 1`: 1 when v is zero, v otherwise
OrOne(v) == IF v[1] = 0 THEN R(1) ELSE v

SeqsUpTo(S, n) == UNION {[1..k -> S] : k \in 0..n}

-----------------------------------------------------------------------------
(* GaussianSplat *)

GaussianSplat(x, y, z, r, g, b, opacity, scale) ==
    [x |-> x, y |-> y, z |-> z, r |-> r, g |-> g, b |-> b,
     opacity |-> opacity, scale |-> scale]

-----------------------------------------------------------------------------
(* normalize_splats *)

xs(ss) == [i \in DOMAIN ss |-> ss[i].x]
ys(ss) == [i \in DOMAIN ss |-> ss[i].y]
zs(ss) == [i \in DOMAIN ss |-> ss[i].z]

\* range = max - min, with `or 1`
AxisRangeNoDefault(vals) == RSub(SeqMax(vals), SeqMin(vals))
AxisRange(vals) == OrOne(RSub(SeqMax(vals), SeqMin(vals)))

max_range(ss) == RMax(AxisRange(xs(ss)), RMax(AxisRange(ys(ss)), AxisRange(zs(ss))))

\* the center offset of one axis
AxisCenter(vals, c) ==
    IF c THEN RDiv(RAdd(SeqMin(vals), SeqMax(vals)), R(2)) ELSE R(0)

\* raises ZeroDivisionError at `target_size / max_range`; the empty sequence
\* returns before any arithmetic
normalize_raises_without_guard(ss) == ss = <<>> \/ max_range(ss)[1] = 0
normalize_raises(ss) == ss # <<>> /\ max_range(ss)[1] = 0

scale_factor_inverted(ss, tsize) == RDiv(max_range(ss), tsize)
scale_factor(ss, tsize) == RDiv(tsize, max_range(ss))

normalize_splats(ss, tsize, c) ==
    IF ss = <<>> THEN ss
    ELSE LET center_x == AxisCenter(xs(ss), c)
             center_y == AxisCenter(ys(ss), c)
             center_z == AxisCenter(zs(ss), c)
         IN  [i \in DOMAIN ss |->
                GaussianSplat(RMul(RSub(ss[i].x, center_x), scale_factor(ss, tsize)),
                              RMul(RSub(ss[i].y, center_y), scale_factor(ss, tsize)),
                              RMul(RSub(ss[i].z, center_z), scale_factor(ss, tsize)),
                              ss[i].r, ss[i].g, ss[i].b, ss[i].opacity,
                              RMul(ss[i].scale, scale_factor(ss, tsize)))]

-----------------------------------------------------------------------------
(* downsample_splats *)

\* one step of a stable descending sort: s goes after every element whose
\* opacity is >= its own (sorted(..., reverse=True) keeps equal keys in
\* their original order)
InsertUnstable(sorted, s) ==
    LET k == Cardinality({i \in DOMAIN sorted : RLt(s.opacity, sorted[i].opacity)})
    IN  SubSeq(sorted, 1, k) \o <<s>> \o SubSeq(sorted, k + 1, Len(sorted))
InsertByOpacity(sorted, s) ==
    LET k == Cardinality({i \in DOMAIN sorted : RLe(s.opacity, sorted[i].opacity)})
    IN  SubSeq(sorted, 1, k) \o <<s>> \o SubSeq(sorted, k + 1, Len(sorted))

RECURSIVE sorted_splats(_)
sorted_splats(ss) ==
    IF ss = <<>> THEN <<>>
    ELSE InsertByOpacity(sorted_splats(SubSeq(ss, 1, Len(ss) - 1)), ss[Len(ss)])

\* Python's seq[:k]
SliceTo(s, k) ==
    IF k >= 0 THEN SubSeq(s, 1, IF k < Len(s) THEN k ELSE Len(s))
    ELSE SubSeq(s, 1, IF Len(s) + k > 0 THEN Len(s) + k ELSE 0)

\* what np.random.choice(n, k, replace=False) can return, as 1-based indices
RandomChoice(n, k) ==
    {c \in [1..k -> 1..n] : \A i, j \in 1..k : i # j => c[i] # c[j]}

\* the early return of downsample_splats
AlreadyFitsStrict(ss, max_count) == Len(ss) < max_count
AlreadyFits(ss, max_count) == Len(ss) <= max_count

\* np.random.choice raises ValueError on a negative size
downsample_raises(ss, max_count, m) ==
    ~AlreadyFits(ss, max_count) /\ m # "opacity" /\ max_count < 0

\* the draws the call can make: none outside the random branch
downsample_draws(ss, max_count, m) ==
    IF ~AlreadyFits(ss, max_count) /\ m # "opacity"
    THEN RandomChoice(Len(ss), max_count)
    ELSE {<<>>}

downsample_splats(ss, max_count, m, drawn) ==
    IF AlreadyFits(ss, max_count) THEN ss
    ELSE IF m = "opacity" THEN SliceTo(sorted_splats(ss), max_count)
    ELSE [i \in DOMAIN drawn |-> ss[drawn[i]]]

-----------------------------------------------------------------------------
(* generate_mcfunction *)

RoundHalfEven(n, d) ==
    LET f == n \div d
        r2 == 2 * (n % d)
    IN  IF r2 < d THEN f
        ELSE IF r2 > d THEN f + 1
        ELSE IF f % 2 = 0 THEN f ELSE f + 1

Pow10(k) == IF k = 2 THEN 100 ELSE 1000

\* f"{v:.3f}" / f"{v:.2f}": the sign and the digits of |v| rounded to k decimals
FormatFixed(v, k) ==
    [neg |-> v[1] < 0, digits |-> RoundHalfEven(Abs(v[1]) * Pow10(k), v[2])]

\* max(0.1, min(4.0, s.scale * 50))
particle_scale(s) == RMax(Rat(1, 10), RMin(R(4), RMul(s.scale, R(50))))

particle_line(s, rel) ==
    [kind |-> "particle",
     color |-> <<FormatFixed(Clip01(s.r), 3), FormatFixed(Clip01(s.g), 3),
                 FormatFixed(Clip01(s.b), 3)>>,
     scale |-> FormatFixed(particle_scale(s), 2),
     tilde |-> rel,
     pos |-> <<FormatFixed(s.x, 3), FormatFixed(s.y, 3), FormatFixed(s.z, 3)>>]

header_lines(ss) ==
    << [kind |-> "comment", text |-> "# Generated by splat2mc"],
       [kind |-> "count", n |-> Len(ss)],
       [kind |-> "blank"] >>

\* `if s.opacity < min_opacity: continue`
SkippedAtOrBelow(s, min_op) == RLe(s.opacity, min_op)
Skipped(s, min_op) == RLt(s.opacity, min_op)

RECURSIVE particle_lines(_, _, _)
particle_lines(ss, rel, min_op) ==
    IF ss = <<>> THEN <<>>
    ELSE IF Skipped(Head(ss), min_op) THEN particle_lines(Tail(ss), rel, min_op)
    ELSE <<particle_line(Head(ss), rel)>> \o particle_lines(Tail(ss), rel, min_op)

generate_mcfunction(ss, rel, min_op) ==
    header_lines(ss) \o particle_lines(ss, rel, min_op)

-----------------------------------------------------------------------------
(* load_ply *)

PositionFields == {"x", "y", "z"}
ShFields == {"f_dc_0", "f_dc_1", "f_dc_2"}
RgbFields == {"red", "green", "blue"}
ScaleFields == {"scale_0", "scale_1", "scale_2"}
FieldNames == PositionFields \cup ShFields \cup RgbFields \cup {"opacity"} \cup ScaleFields

\* The raw value row `row` of a file holds in field f.
Raw(row, f) ==
    CASE f = "x" -> IF row = 1 THEN 0 ELSE IF row = 2 THEN 1 ELSE 4
      [] f = "y" -> IF row = 1 THEN 0 ELSE IF row = 2 THEN 2 ELSE 2
      [] f = "z" -> IF row = 1 THEN 0 ELSE IF row = 2 THEN 4 ELSE 1
      [] f = "f_dc_0" -> IF row = 1 THEN 0 ELSE 2
      [] f = "f_dc_1" -> IF row = 1 THEN 0 ELSE -2
      [] f = "f_dc_2" -> IF row = 1 THEN 0 ELSE 1
      [] f = "red" -> IF row = 1 THEN 255 ELSE 51
      [] f = "green" -> IF row = 1 THEN 0 ELSE 51
      [] f = "blue" -> IF row = 1 THEN 102 ELSE 51
      [] f = "opacity" -> IF row = 1 THEN 2 ELSE IF row = 2 THEN -3 ELSE 0
      [] f = "scale_0" -> IF row = 1 THEN -5 ELSE -3
      [] f = "scale_1" -> IF row = 1 THEN -5 ELSE -4
      [] f = "scale_2" -> IF row = 1 THEN -5 ELSE -5

\* C0 = 0.28209479177387814, kept to four decimals
C0 == Rat(2821, 10000)

\* 1 / (1 + exp(-v)) on the raw opacities of Raw, to three decimals
Sigmoid(v) ==
    CASE v = 0 -> Rat(1, 2)
      [] v = 2 -> Rat(881, 1000)
      [] v = -3 -> Rat(47, 1000)

\* exp(v) on the raw scales of Raw, to three decimals
Exp(v) ==
    CASE v = 0 -> R(1)
      [] v = -3 -> Rat(50, 1000)
      [] v = -4 -> Rat(18, 1000)
      [] v = -5 -> Rat(7, 1000)

DefaultScale == Rat(1, 100)

\* the fields load_ply reads, given the fields present: the position fields,
\* and every field of a group whose first field is present
FieldsReadOptionalOnly(present) ==
    (IF "f_dc_0" \in present THEN ShFields
     ELSE IF "red" \in present THEN RgbFields ELSE {})
    \cup (IF "scale_0" \in present THEN ScaleFields ELSE {})
FieldsRead(present) ==
    PositionFields
    \cup (IF "f_dc_0" \in present THEN ShFields
          ELSE IF "red" \in present THEN RgbFields ELSE {})
    \cup (IF "scale_0" \in present THEN ScaleFields ELSE {})

\* "" when load_ply returns, else the exception it raises
load_error(file) ==
    IF ~file.readable THEN "PlyReadError"
    ELSE IF ~(FieldsRead(file.fields) \subseteq file.fields) THEN "ValueError"
    ELSE ""

decode_color(file, row, sh, rgb) ==
    IF "f_dc_0" \in file.fields
    THEN Clip01(RAdd(Rat(1, 2), RMul(R(Raw(row, sh)), C0)))
    ELSE IF "red" \in file.fields
    THEN Clip01(Rat(Raw(row, rgb), 255))
    ELSE Clip01(R(1))

decode_opacity(file, row) ==
    IF "opacity" \in file.fields THEN Sigmoid(Raw(row, "opacity")) ELSE R(1)

decode_scale(file, row) ==
    IF "scale_0" \in file.fields
    THEN RDiv(RAdd(RAdd(Exp(Raw(row, "scale_0")), Exp(Raw(row, "scale_1"))),
                   Exp(Raw(row, "scale_2"))), R(3))
    ELSE RMul(R(1), DefaultScale)

load_ply(file) ==
    [i \in DOMAIN file.rows |->
        GaussianSplat(R(Raw(file.rows[i], "x")), R(Raw(file.rows[i], "y")),
                      R(Raw(file.rows[i], "z")),
                      decode_color(file, file.rows[i], "f_dc_0", "red"),
                      decode_color(file, file.rows[i], "f_dc_1", "green"),
                      decode_color(file, file.rows[i], "f_dc_2", "blue"),
                      decode_opacity(file, file.rows[i]),
                      decode_scale(file, file.rows[i]))]

-----------------------------------------------------------------------------
(* generate_datapack *)

DatapackArtefacts == {"datapack_dir", "pack.mcmeta", "mcfunction", "help.mcfunction"}

generate_datapack(content) == [artefacts |-> DatapackArtefacts, content |-> content]

NoDatapack == [artefacts |-> {}, content |-> <<>>]

-----------------------------------------------------------------------------
(* The inputs the specifications draw from. *)

Splat(x, y, z, opacity, scale) == GaussianSplat(x, y, z, R(1), R(1), R(1), opacity, scale)

\* clouds for the Normalizer: coincident, planar with a range below and above
\* 1, and clouds that differ on every axis
NormPool ==
    { Splat(R(0), R(0), R(0), R(1), Rat(1, 100)),
      Splat(Rat(1, 2), R(0), R(0), R(1), Rat(1, 100)),
      Splat(R(3), R(0), R(0), R(1), Rat(1, 100)),
      Splat(R(1), R(2), R(4), R(1), Rat(1, 2)),
      Splat(R(-1), Rat(1, 2), Rat(1, 4), R(1), R(0)) }

TargetSizes == {Rat(1, 2), R(1), R(10)}

\* splats for the Selector: three opacities, each carried by two splats that
\* differ in position
SelPool ==
    { Splat(R(x), R(0), R(0), o, Rat(1, 100)) :
        x \in {0, 1}, o \in {Rat(1, 20), Rat(1, 2), Rat(9, 10)} }

Methods == {"opacity", "random"}

\* splats for the Emitter: opacities below, at and above the thresholds
EmitPool ==
    { Splat(R(0), R(0), R(0), Rat(1, 20), Rat(1, 100)),
      Splat(R(1), Rat(-5, 2), Rat(1, 3), Rat(1, 10), Rat(1, 1000)),
      Splat(R(2), R(0), R(0), Rat(1, 2), Rat(1, 10)),
      Splat(R(-3), R(0), Rat(2, 3), Rat(9, 10), Rat(1, 50)),
      Splat(R(4), R(0), R(0), R(1), Rat(1, 100)) }

Thresholds == {R(0), Rat(1, 10), Rat(1, 2), R(1)}

File(readable, fields, rows) == [readable |-> readable, fields |-> fields, rows |-> rows]

RowChoices == {<<>>, <<1>>, <<1, 2>>, <<3, 2, 1>>}

\* the files of the drivers: complete files of 2, 3 and 0 points, a file
\* with positions only, a file without the y axis, a file with f_dc_0 but
\* not f_dc_1 and f_dc_2, and a file PlyData.read cannot parse
FilePool ==
    { File(TRUE, FieldNames, <<1, 2>>),
      File(TRUE, FieldNames, <<1, 2, 3>>),
      File(TRUE, FieldNames, <<>>),
      File(TRUE, PositionFields, <<1, 2>>),
      File(TRUE, FieldNames \ {"y"}, <<1, 2>>),
      File(TRUE, PositionFields \cup {"f_dc_0"}, <<1>>),
      File(FALSE, FieldNames, <<1>>) }

DefaultMaxParticles == 5000
DefaultTargetSize == R(10)
DefaultMinOpacity == Rat(1, 10)

\* the values the command line can pass: click checks only that they are an
\* int and two floats
MaxParticleArgs == {-1, 0, 1, 2, DefaultMaxParticles}
TargetSizeArgs == {R(-1), R(0), DefaultTargetSize}
MinOpacityArgs == {R(-1), DefaultMinOpacity, R(2)}

\* the variables a specification of one function leaves alone
Idle ==
    /\ idx = 0
    /\ attempts = <<>>
    /\ errors = <<>>
    /\ datapacks = <<>>
    /\ stages = {}
    /\ outdir = "absent"
    /\ input = <<>>
    /\ indices = <<>>
    /\ mcfunction = <<>>
    /\ error = ""

IdleUnchanged == UNCHANGED <<command, files, original, idx, attempts, errors, datapacks, stages, outdir,
                             max_particles, method, target_size, center, min_opacity, relative>>

-----------------------------------------------------------------------------
(* normalize_splats applied once, then again to its own output. *)

InitNormalizer ==
    /\ Idle
    /\ command = "normalize_splats"
    /\ pc = "call"
    /\ files = <<>>
    /\ splats \in SeqsUpTo(NormPool, MaxLen)
    /\ original = splats
    /\ target_size \in TargetSizes
    /\ center \in BOOLEAN
    /\ max_particles = DefaultMaxParticles
    /\ method = "opacity"
    /\ min_opacity = DefaultMinOpacity
    /\ relative = TRUE

NormalizeOnce ==
    /\ command = "normalize_splats"
    /\ pc = "call"
    /\ input' = splats
    /\ IF normalize_raises(splats)
       THEN error' = "ZeroDivisionError" /\ pc' = "raised" /\ UNCHANGED splats
       ELSE /\ splats' = normalize_splats(splats, target_size, center)
            /\ pc' = "once"
            /\ UNCHANGED error
    /\ UNCHANGED <<indices, mcfunction>>
    /\ IdleUnchanged

NormalizeAgain ==
    /\ command = "normalize_splats"
    /\ pc = "once"
    /\ input' = splats
    /\ IF normalize_raises(splats)
       THEN error' = "ZeroDivisionError" /\ pc' = "raised" /\ UNCHANGED splats
       ELSE /\ splats' = normalize_splats(splats, target_size, center)
            /\ pc' = "twice"
            /\ UNCHANGED error
    /\ UNCHANGED <<indices, mcfunction>>
    /\ IdleUnchanged

NextNormalizer == NormalizeOnce \/ NormalizeAgain

SpecNormalizer == InitNormalizer /\ [][NextNormalizer]_vars

-----------------------------------------------------------------------------
(* downsample_splats applied to a splat sequence. *)

InitSelector ==
    /\ Idle
    /\ command = "downsample_splats"
    /\ pc = "call"
    /\ files = <<>>
    /\ splats \in SeqsUpTo(SelPool, MaxLen)
    /\ original = splats
    /\ max_particles \in -1..(MaxLen + 1)
    /\ method \in Methods
    /\ target_size = DefaultTargetSize
    /\ center = TRUE
    /\ min_opacity = DefaultMinOpacity
    /\ relative = TRUE

Downsample ==
    /\ command = "downsample_splats"
    /\ pc = "call"
    /\ input' = splats
    /\ IF downsample_raises(splats, max_particles, method)
       THEN error' = "ValueError" /\ pc' = "raised" /\ UNCHANGED <<splats, indices>>
       ELSE /\ \E drawn \in downsample_draws(splats, max_particles, method) :
                 /\ indices' = drawn
                 /\ splats' = downsample_splats(splats, max_particles, method, drawn)
            /\ pc' = "returned"
            /\ UNCHANGED error
    /\ UNCHANGED mcfunction
    /\ IdleUnchanged

NextSelector == Downsample

SpecSelector == InitSelector /\ [][NextSelector]_vars

-----------------------------------------------------------------------------
(* generate_mcfunction applied to a splat sequence. *)

InitEmitter ==
    /\ Idle
    /\ command = "generate_mcfunction"
    /\ pc = "call"
    /\ files = <<>>
    /\ splats \in SeqsUpTo(EmitPool, MaxLen)
    /\ original = splats
    /\ min_opacity \in Thresholds
    /\ relative \in BOOLEAN
    /\ max_particles = DefaultMaxParticles
    /\ method = "opacity"
    /\ target_size = DefaultTargetSize
    /\ center = TRUE

Emit ==
    /\ command = "generate_mcfunction"
    /\ pc = "call"
    /\ input' = splats
    /\ mcfunction' = generate_mcfunction(splats, relative, min_opacity)
    /\ pc' = "returned"
    /\ UNCHANGED <<splats, indices, error>>
    /\ IdleUnchanged

NextEmitter == Emit

SpecEmitter == InitEmitter /\ [][NextEmitter]_vars

-----------------------------------------------------------------------------
(* load_ply applied to a file with any set of fields present. *)

InitDecoder ==
    /\ Idle
    /\ command = "load_ply"
    /\ pc = "call"
    /\ \E readable \in BOOLEAN, fields \in SUBSET FieldNames, rows \in RowChoices :
          files = <<File(readable, fields, rows)>>
    /\ splats = <<>>
    /\ original = <<>>
    /\ max_particles = DefaultMaxParticles
    /\ method = "opacity"
    /\ target_size = DefaultTargetSize
    /\ center = TRUE
    /\ min_opacity = DefaultMinOpacity
    /\ relative = TRUE

Decode ==
    /\ command = "load_ply"
    /\ pc = "call"
    /\ IF load_error(files[1]) # ""
       THEN error' = load_error(files[1]) /\ pc' = "raised" /\ UNCHANGED splats
       ELSE splats' = load_ply(files[1]) /\ pc' = "returned" /\ UNCHANGED error
    /\ UNCHANGED <<input, indices, mcfunction>>
    /\ IdleUnchanged

NextDecoder == Decode

SpecDecoder == InitDecoder /\ [][NextDecoder]_vars

-----------------------------------------------------------------------------
(* Properties of normalize_splats. *)

Half(v) == RDiv(v, R(2))
InExtent(v, tsize) == RLe(RNeg(Half(tsize)), v) /\ RLe(v, Half(tsize))

\* the largest true axis range of a cloud, and whether some axis has none
TrueRange(ss) ==
    RMax(AxisRangeNoDefault(xs(ss)),
         RMax(AxisRangeNoDefault(ys(ss)), AxisRangeNoDefault(zs(ss))))
HasZeroAxis(ss) ==
    \/ AxisRangeNoDefault(xs(ss))[1] = 0
    \/ AxisRangeNoDefault(ys(ss))[1] = 0
    \/ AxisRangeNoDefault(zs(ss))[1] = 0

SameGeometry(a, b) ==
    /\ Len(a) = Len(b)
    /\ \A i \in DOMAIN a :
          a[i].x = b[i].x /\ a[i].y = b[i].y /\ a[i].z = b[i].z /\ a[i].scale = b[i].scale

\* C8 as claimed: for every non-empty sequence, positive target extent and
\* centering flag, the second application of normalize_splats with the same
\* parameters changes no position coordinate and no scale.
C8_SecondApplicationIdentity ==
    (command = "normalize_splats" /\ pc = "twice" /\ original # <<>>)
        => SameGeometry(splats, input)

\* the clouds on which the second application is the identity: no axis
\* range was replaced by 1, or the replacement does not decide the scale
\* factor of either application
C8_Stable(ss, tsize) ==
    \/ ~HasZeroAxis(ss)
    \/ RLe(R(1), tsize) /\ RLe(R(1), TrueRange(ss))
    \/ tsize = R(1)

\* C8 amended: the second application changes nothing when no axis of the
\* cloud has zero range, or the target extent and the largest axis range are
\* both at least 1, or the target extent is 1; and it then raises nothing.
C8_SecondApplicationIdentityWhenStable ==
    (command = "normalize_splats" /\ pc \in {"twice", "raised"} /\ original # <<>>
       /\ C8_Stable(original, target_size))
        => pc = "twice" /\ error = "" /\ SameGeometry(splats, input)

\* a planar cloud of extent 3 and target extent 10: the first application
\* moved it, the second left it alone
C8_Witness ==
    /\ command = "normalize_splats" /\ pc = "twice"
    /\ Len(original) >= 2 /\ HasZeroAxis(original)
    /\ target_size = R(10) /\ C8_Stable(original, target_size)
    /\ ~SameGeometry(input, original)
    /\ SameGeometry(splats, input)

-----------------------------------------------------------------------------
(* Properties of downsample_splats. *)

Before(ss, i, j) ==
    \/ RLt(ss[j].opacity, ss[i].opacity)
    \/ ss[i].opacity = ss[j].opacity /\ i < j

\* out is the k first splats of ss in the order: higher opacity first, and
\* among equal opacities the earlier position in ss first
IsTopK(ss, out, k) ==
    /\ Len(out) = k
    /\ \E p \in [1..k -> DOMAIN ss] :
          /\ \A j \in 1..k : out[j] = ss[p[j]]
          /\ \A j \in 1..(k - 1) : Before(ss, p[j], p[j + 1])
          /\ \A q \in DOMAIN ss :
                (\A j \in 1..k : p[j] # q) => \A j \in 1..k : Before(ss, p[j], q)

\* C1: for 0 < k < len(S) the opacity policy returns exactly the k
\* highest-opacity splats in descending opacity order, the earlier of two
\* equally opaque splats first (and kept when only one of them fits).
C1_TopKByOpacityStable ==
    (command = "downsample_splats" /\ pc # "call" /\ method = "opacity"
       /\ 0 < max_particles /\ max_particles < Len(input))
        => pc = "returned" /\ IsTopK(input, splats, max_particles)

\* a tie across the cut: of two equally opaque, different splats the earlier
\* is kept and the later dropped
C1_Witness ==
    /\ command = "downsample_splats" /\ pc = "returned" /\ method = "opacity"
    /\ 0 < max_particles /\ max_particles < Len(input)
    /\ \E i, j \in DOMAIN input :
          /\ i < j /\ input[i].opacity = input[j].opacity /\ input[i] # input[j]
          /\ splats[max_particles] = input[i]
          /\ \A n \in DOMAIN splats : splats[n] # input[j]

\* C2: with a maximum count >= len(S) either policy returns S unchanged.
C2_IdentityWhenWithinBudget ==
    (command = "downsample_splats" /\ pc # "call" /\ max_particles >= Len(input))
        => pc = "returned" /\ error = "" /\ splats = input

\* a sequence not in opacity order whose length is exactly the maximum count
C2_Witness ==
    /\ command = "downsample_splats" /\ pc = "returned" /\ method = "random"
    /\ max_particles = Len(input) /\ Len(input) >= 2
    /\ \E i, j \in DOMAIN input : i < j /\ RLt(input[i].opacity, input[j].opacity)
    /\ splats = input

-----------------------------------------------------------------------------
(* Properties of generate_mcfunction. *)

KeptIndices(ss, t) == {i \in DOMAIN ss : RLe(t, ss[i].opacity)}

\* the j-th smallest member of a set of indices
Nth(S, j) == CHOOSE i \in S : Cardinality({k \in S : k <= i}) = j

\* C3: the output is the 3 header/separator lines followed by exactly one
\* particle line for each splat whose opacity is >= the threshold, in input
\* order; a splat strictly below the threshold yields no line.
C3_OneLinePerVisibleSplat ==
    (command = "generate_mcfunction" /\ pc = "returned")
        => LET kept == KeptIndices(input, min_opacity)
           IN  /\ Len(mcfunction) = 3 + Cardinality(kept)
               /\ mcfunction[1].kind = "comment"
               /\ mcfunction[2].kind = "count"
               /\ mcfunction[3].kind = "blank"
               /\ \A j \in 1..Cardinality(kept) :
                     mcfunction[3 + j] = particle_line(input[Nth(kept, j)], relative)

\* a splat at the threshold after a splat below it: one is skipped, the
\* other is the first particle line
C3_Witness ==
    /\ command = "generate_mcfunction" /\ pc = "returned"
    /\ Len(input) >= 2
    /\ RLt(input[1].opacity, min_opacity)
    /\ input[2].opacity = min_opacity
    /\ Len(mcfunction) = 3 + Len(input) - 1
    /\ mcfunction[4] = particle_line(input[2], relative)

-----------------------------------------------------------------------------
(* Properties of load_ply. *)

\* C5 as claimed: load_ply fails if and only if a position field is absent;
\* with every other combination of fields it succeeds, and a colour, opacity
\* or scale group with no field present takes its default.
C5_OnlyPositionAborts ==
    (command = "load_ply" /\ pc # "call" /\ files[1].readable)
        => /\ (pc = "raised") <=> ~(PositionFields \subseteq files[1].fields)
           /\ pc = "returned" =>
                 \A i \in DOMAIN splats :
                    /\ (files[1].fields \cap (ShFields \cup RgbFields) = {})
                          => splats[i].r = R(1) /\ splats[i].g = R(1) /\ splats[i].b = R(1)
                    /\ "opacity" \notin files[1].fields => splats[i].opacity = R(1)
                    /\ (files[1].fields \cap ScaleFields = {})
                          => splats[i].scale = Rat(1, 100)

-----------------------------------------------------------------------------
(* The convert and batch commands, and convert_ply_to_datapack beneath them. *)

Init ==
    /\ pc = "start"
    /\ command \in {"convert", "batch"}
    /\ IF command = "convert"
       THEN /\ files \in [1..1 -> FilePool]
            /\ target_size \in TargetSizeArgs
            /\ min_opacity \in MinOpacityArgs
       ELSE /\ files \in SeqsUpTo(FilePool, MaxFiles)
            /\ target_size = DefaultTargetSize
            /\ min_opacity = DefaultMinOpacity
    /\ max_particles \in MaxParticleArgs
    /\ outdir \in {"absent", "present"}
    /\ idx = 0
    /\ attempts = [i \in DOMAIN files |-> 0]
    /\ errors = [i \in DOMAIN files |-> ""]
    /\ datapacks = [i \in DOMAIN files |-> NoDatapack]
    /\ stages = {}
    /\ original = <<>>
    /\ input = <<>>
    /\ splats = <<>>
    /\ indices = <<>>
    /\ mcfunction = <<>>
    /\ error = ""
    /\ method = "opacity"
    /\ center = TRUE
    /\ relative = TRUE

Params == <<command, files, max_particles, method, target_size, center, min_opacity,
            relative, original, indices>>

\* output.mkdir(parents=True, exist_ok=True)
Mkdir(dir) == IF dir = "absent" THEN "created" ELSE dir

\* the locals of a fresh call of convert_ply_to_datapack
FreshCall ==
    /\ stages' = {}
    /\ input' = <<>>
    /\ splats' = <<>>
    /\ mcfunction' = <<>>

\* convert: create the output directory, then call the pipeline
ConvertStart ==
    /\ command = "convert"
    /\ pc = "start"
    /\ outdir' = Mkdir(outdir)
    /\ idx' = 1
    /\ pc' = "load"
    /\ UNCHANGED <<attempts, errors, datapacks, stages, input, splats, mcfunction, error>>
    /\ UNCHANGED Params

\* batch: no PLY file found
BatchNoFiles ==
    /\ command = "batch"
    /\ pc = "start"
    /\ files = <<>>
    /\ pc' = "done"
    /\ UNCHANGED <<outdir, idx, attempts, errors, datapacks, stages, input, splats,
                   mcfunction, error>>
    /\ UNCHANGED Params

\* batch: create the output directory and enter the loop
BatchStart ==
    /\ command = "batch"
    /\ pc = "start"
    /\ files # <<>>
    /\ outdir' = Mkdir(outdir)
    /\ idx' = 1
    /\ pc' = "load"
    /\ UNCHANGED <<attempts, errors, datapacks, stages, input, splats, mcfunction, error>>
    /\ UNCHANGED Params

\* convert_ply_to_datapack: splats = load_ply(ply_path)
PipelineLoad ==
    /\ pc = "load"
    /\ attempts' = [attempts EXCEPT ![idx] = @ + 1]
    /\ stages' = stages \cup {"load"}
    /\ IF load_error(files[idx]) # ""
       THEN error' = load_error(files[idx]) /\ pc' = "raised" /\ UNCHANGED splats
       ELSE splats' = load_ply(files[idx]) /\ pc' = "normalize" /\ UNCHANGED error
    /\ UNCHANGED <<outdir, idx, errors, datapacks, input, mcfunction>>
    /\ UNCHANGED Params

\* splats = normalize_splats(splats, target_size=target_size)
PipelineNormalize ==
    /\ pc = "normalize"
    /\ stages' = stages \cup {"normalize"}
    /\ input' = splats
    /\ IF normalize_raises(splats)
       THEN error' = "ZeroDivisionError" /\ pc' = "raised" /\ UNCHANGED splats
       ELSE /\ splats' = normalize_splats(splats, target_size, center)
            /\ pc' = "downsample"
            /\ UNCHANGED error
    /\ UNCHANGED <<outdir, idx, attempts, errors, datapacks, mcfunction>>
    /\ UNCHANGED Params

\* if len(splats) > max_particles: splats = downsample_splats(splats, max_particles)
PipelineDownsample ==
    /\ pc = "downsample"
    /\ Len(splats) > max_particles
    /\ stages' = stages \cup {"downsample"}
    /\ input' = splats
    /\ IF downsample_raises(splats, max_particles, method)
       THEN error' = "ValueError" /\ pc' = "raised" /\ UNCHANGED splats
       ELSE /\ \E drawn \in downsample_draws(splats, max_particles, method) :
                 splats' = downsample_splats(splats, max_particles, method, drawn)
            /\ pc' = "generate"
            /\ UNCHANGED error
    /\ UNCHANGED <<outdir, idx, attempts, errors, datapacks, mcfunction>>
    /\ UNCHANGED Params

PipelineSkipDownsample ==
    /\ pc = "downsample"
    /\ ~(Len(splats) > max_particles)
    /\ pc' = "generate"
    /\ UNCHANGED <<outdir, idx, attempts, errors, datapacks, stages, input, splats,
                   mcfunction, error>>
    /\ UNCHANGED Params

\* mcfunction = generate_mcfunction(splats, min_opacity=min_opacity)
PipelineGenerate ==
    /\ pc = "generate"
    /\ stages' = stages \cup {"generate"}
    /\ input' = splats
    /\ mcfunction' = generate_mcfunction(splats, relative, min_opacity)
    /\ pc' = "datapack"
    /\ UNCHANGED <<outdir, idx, attempts, errors, datapacks, splats, error>>
    /\ UNCHANGED Params

\* datapack_path = generate_datapack(name, mcfunction, output_dir)
PipelineDatapack ==
    /\ pc = "datapack"
    /\ stages' = stages \cup {"datapack"}
    /\ datapacks' = [datapacks EXCEPT ![idx] = generate_datapack(mcfunction)]
    /\ outdir' = Mkdir(outdir)
    /\ pc' = "returned"
    /\ UNCHANGED <<idx, attempts, errors, input, splats, mcfunction, error>>
    /\ UNCHANGED Params

\* convert: the pipeline returned, the command reports the datapack
ConvertReturn ==
    /\ command = "convert"
    /\ pc = "returned"
    /\ pc' = "done"
    /\ UNCHANGED <<outdir, idx, attempts, errors, datapacks, stages, input, splats,
                   mcfunction, error>>
    /\ UNCHANGED Params

\* convert: the exception leaves the command
ConvertRaise ==
    /\ command = "convert"
    /\ pc = "raised"
    /\ pc' = "failed"
    /\ UNCHANGED <<outdir, idx, attempts, errors, datapacks, stages, input, splats,
                   mcfunction, error>>
    /\ UNCHANGED Params

\* the for loop takes the next file, or ends
LoopAdvance ==
    /\ IF idx < Len(files)
       THEN idx' = idx + 1 /\ pc' = "load"
       ELSE idx' = idx /\ pc' = "done"
    /\ FreshCall

\* batch: the call returned inside the try block
BatchReturn ==
    /\ command = "batch"
    /\ pc = "returned"
    /\ LoopAdvance
    /\ UNCHANGED <<outdir, attempts, errors, datapacks, error>>
    /\ UNCHANGED Params

\* the body of `except Exception as e`
ExceptAbort ==
    /\ pc' = "failed"
    /\ UNCHANGED <<idx, stages, input, splats, mcfunction, errors, error>>
ExceptClause ==
    /\ errors' = [errors EXCEPT ![idx] = error]
    /\ error' = ""
    /\ LoopAdvance

\* batch: the call raised inside the try block
BatchExcept ==
    /\ command = "batch"
    /\ pc = "raised"
    /\ ExceptClause
    /\ UNCHANGED <<outdir, attempts, datapacks>>
    /\ UNCHANGED Params

Next ==
    \/ ConvertStart
    \/ BatchNoFiles
    \/ BatchStart
    \/ PipelineLoad
    \/ PipelineNormalize
    \/ PipelineDownsample
    \/ PipelineSkipDownsample
    \/ PipelineGenerate
    \/ PipelineDatapack
    \/ ConvertReturn
    \/ ConvertRaise
    \/ BatchReturn
    \/ BatchExcept

Spec == Init /\ [][Next]_vars

-----------------------------------------------------------------------------
(* Properties of the commands. *)

Driver == command \in {"convert", "batch"}

AfterLoad == {"normalize", "downsample", "generate", "datapack", "returned"}

InvalidParameters ==
    \/ max_particles <= 0
    \/ RLe(target_size, R(0))
    \/ RLt(min_opacity, R(0))
    \/ RLt(R(1), min_opacity)

\* C4 as claimed: a run given a non-positive maximum count, a non-positive
\* target extent or an opacity threshold outside [0,1] is rejected with
\* InvalidParameter before any stage runs: no stage executes, no splat
\* sequence is produced and no output is written.
C4_InvalidParametersRejected ==
    (Driver /\ InvalidParameters)
        => /\ stages = {}
           /\ pc \notin AfterLoad
           /\ pc \in {"raised", "failed"} => error = "InvalidParameter"
           /\ \A i \in DOMAIN files : datapacks[i] = NoDatapack

MissingPosition(f) == f.readable /\ ~(PositionFields \subseteq f.fields)

\* C6 as claimed: when a position field is absent the run fails and, at the
\* moment of the failure, no output artefact at all has been created.
C6_NoArtefactOnMissingPosition ==
    (Driver /\ idx \in DOMAIN files /\ MissingPosition(files[idx])
       /\ pc \in {"raised", "failed"})
        => /\ error = "ValueError"
           /\ datapacks[idx] = NoDatapack
           /\ mcfunction = <<>>
           /\ outdir # "created"

\* C6 amended: when a position field is absent the run of that file fails
\* in load_ply and no datapack directory, pack.mcmeta, mcfunction script or
\* help script is ever written for it (the output root directory, which the
\* command creates before it calls the pipeline, may have been created).
C6_NoDatapackOnMissingPosition ==
    \A i \in DOMAIN files :
        (Driver /\ MissingPosition(files[i]))
            => /\ datapacks[i] = NoDatapack
               /\ i = idx => pc \notin AfterLoad /\ mcfunction = <<>> /\ splats = <<>>
               /\ (i = idx /\ pc \in {"raised", "failed"}) => error = "ValueError"
               /\ command = "convert" => pc # "done"
               /\ (command = "batch" /\ pc = "done") => errors[i] = "ValueError"

\* convert on a file without a position field: the command failed, it
\* created the output root directory and nothing else
C6_Witness ==
    /\ command = "convert" /\ pc = "failed" /\ error = "ValueError"
    /\ MissingPosition(files[1])
    /\ outdir = "created"
    /\ datapacks[1] = NoDatapack

\* C7: batch processes every file found exactly once whatever subset of
\* them fails: a failure does not end the loop, and every file that did not
\* fail has its datapack.
C7_BatchIsolatesFailures ==
    command = "batch"
        => /\ pc # "failed"
           /\ \A i \in DOMAIN files : attempts[i] <= 1 /\ (i < idx => attempts[i] = 1)
           /\ pc = "done" =>
                 \A i \in DOMAIN files :
                    /\ attempts[i] = 1
                    /\ errors[i] = load_error(files[i])
                    /\ errors[i] = "" => datapacks[i].artefacts = DatapackArtefacts
                    /\ errors[i] # "" => datapacks[i] = NoDatapack

\* the first of at least two files failed and the last still got its datapack
C7_Witness ==
    /\ command = "batch" /\ pc = "done" /\ Len(files) >= 2
    /\ errors[1] # "" /\ attempts[1] = 1
    /\ errors[Len(files)] = "" /\ attempts[Len(files)] = 1
    /\ datapacks[Len(files)].artefacts = DatapackArtefacts

IsEmptyScript(lines) ==
    /\ Len(lines) = 3
    /\ lines[1].kind = "comment"
    /\ lines[2].kind = "count" /\ lines[2].n = 0
    /\ lines[3].kind = "blank"

\* C9: when zero splats are decoded no later stage fails: normalize_splats
\* and downsample_splats return the empty sequence, generate_mcfunction
\* returns the 3 header/separator lines alone, and the run completes.
C9_EmptyInputCompletes ==
    /\ \A t \in TargetSizeArgs \cup TargetSizes, c \in BOOLEAN :
          ~normalize_raises(<<>>) /\ normalize_splats(<<>>, t, c) = <<>>
    /\ \A k \in 1..MaxLen, m \in Methods :
          /\ ~downsample_raises(<<>>, k, m)
          /\ \A drawn \in downsample_draws(<<>>, k, m) :
                downsample_splats(<<>>, k, m, drawn) = <<>>
    /\ \A t \in Thresholds, rel \in BOOLEAN : IsEmptyScript(generate_mcfunction(<<>>, rel, t))
    /\ (Driver /\ idx \in DOMAIN files /\ load_error(files[idx]) = ""
          /\ files[idx].rows = <<>>)
         => /\ error = "" /\ errors[idx] = ""
            /\ pc \notin {"raised", "failed"}
            /\ pc \in AfterLoad => splats = <<>>
            /\ pc \in {"datapack", "returned"} => IsEmptyScript(mcfunction)
            /\ pc \in {"returned", "done"} =>
                  /\ datapacks[idx].artefacts = DatapackArtefacts
                  /\ IsEmptyScript(datapacks[idx].content)

\* convert on a file of zero points, with a maximum count that sends the
\* empty sequence through downsample_splats: the command completed
C9_Witness ==
    /\ command = "convert" /\ pc = "done" /\ error = ""
    /\ files[1].rows = <<>> /\ load_error(files[1]) = ""
    /\ stages = {"load", "normalize", "downsample", "generate", "datapack"}
    /\ IsEmptyScript(datapacks[1].content)

====
